---- MODULE Spec2Model ----
(***************************************************************************)
(* Model of wiki.py: the contribution report pipeline.                     *)
(*   get_revision_data    -> per-revision size deltas                      *)
(*   aggregate_user_stats -> ranked per-author statistics                  *)
(*   create_html_report   -> the report document written to disk           *)
(*   __main__             -> the wiring of the three                       *)
(* Strings are sequences of one-character strings so that html.escape can  *)
(* be modelled character by character.  A percentage (a Python float) is   *)
(* the exact rational [num, den].                                          *)
(***************************************************************************)
EXTENDS Integers, Sequences, FiniteSets, TLC

\* ------------------------------------------------------------------ bounds
MaxRevs == 3
MaxSize == 2
MaxDeltas == 3
MaxChange == 2
MaxNameLen == 2
MaxRows == 1

\* -------------------------------------------------------------- input sets
\* Author identities the Source may report.
Authors == { <<"A">>, <<"<", "'">> }

\* Author identities of delta records handed directly to the aggregator.
DeltaAuthors == { <<"A">>, <<"a">>, <<"B">> }

\* rev.get('user', 'Unknown'): the sentinel.
Unknown == <<"U", "n", "k", "n", "o", "w", "n">>

\* page.name values the Source may report.
PageNames == { <<"X", "R">>, <<"R", "&", "D">> }

\* Characters of the author names given directly to the renderer.
Chars == { "a", "<", ">", "&", "\"", "'" }

\* Subject titles given directly to the renderer.
Titles == { <<"X", "R">>, <<"R", "&", "D">>, <<"<", "i", ">">>, <<"\"", "'">> }

RECURSIVE StringsUpTo(_)
StringsUpTo(n) ==
    IF n = 0 THEN { <<>> }
    ELSE LET shorter == StringsUpTo(n - 1)
         IN  shorter \cup { Append(s, c) : s \in shorter, c \in Chars }

RECURSIVE SeqsUpTo(_, _)
SeqsUpTo(S, n) ==
    IF n = 0 THEN { <<>> }
    ELSE LET shorter == SeqsUpTo(S, n - 1)
         IN  shorter \cup { Append(s, e) : s \in shorter, e \in S }

\* A revision as mwclient yields it: a dict in which 'user' and 'size' may
\* each be missing.
Revisions ==
    { [user |-> u, size |-> s] : u \in Authors, s \in 0..MaxSize }
    \cup { [user |-> u] : u \in Authors }
    \cup { [size |-> s] : s \in 0..MaxSize }
    \cup { <<>> }

DeltaRecords == { [user |-> u, change |-> c] : u \in DeltaAuthors, c \in (-MaxChange)..MaxChange }

\* ------------------------------------------------------------ Python values
\* The (contribution_data, page.name) / (None, None) return values.
NoneValue == [none |-> TRUE, val |-> <<>>]

Some(v) == [none |-> FALSE, val |-> v]

\* Truthiness of `if revision_history:`: None and the empty list are false.
Truthy(v) == ~v.none /\ v.val # <<>>

\* dict.get(key, default)
DictGet(d, key, default) == IF key \in DOMAIN d THEN d[key] ELSE default

Abs(x) == IF x < 0 THEN -x ELSE x

\* ------------------------------------------------------------------- state
VARIABLES
    pc,                  \* position of the running code
    revs,                \* what page.revisions(dir='newer') yields
    page_name,           \* page.name
    fetch_failure,       \* "none" | "missing" | "exception"
    rev_ix,              \* number of revisions the for loop has consumed
    contribution_data,   \* get_revision_data's list
    previous_size,
    revision_history,    \* main's first return value
    page_title,          \* main's second return value
    agg_data,            \* aggregate_user_stats' parameter contribution_data
    agg_ix,              \* number of records the first loop has consumed
    user_stats,          \* the defaultdict, in insertion order
    total_text_added,
    processed_stats,
    divisions,           \* evaluations of text_added / total_text_added
    warned,              \* the "No text was added" warning was printed
    user_statistics,     \* aggregate_user_stats' return value
    agg_calls,
    report_calls,
    table_rows,          \* create_html_report's rows so far
    html_template,       \* the document create_html_report builds
    file_written         \* contribution_report.html was written

vars == << pc, revs, page_name, fetch_failure, rev_ix, contribution_data,
           previous_size, revision_history, page_title, agg_data, agg_ix,
           user_stats, total_text_added, processed_stats, divisions, warned,
           user_statistics, agg_calls, report_calls, table_rows, html_template,
           file_written >>

fetchVars == << rev_ix, contribution_data, previous_size >>

aggVars == << agg_data, agg_ix, user_stats, total_text_added,
              processed_stats, divisions, warned, user_statistics, agg_calls >>

reportVars == << report_calls, table_rows, html_template, file_written >>

NoDoc == [title |-> <<>>, summary |-> <<>>, rows |-> <<>>]

\* Everything that is not an input, before anything has run.
Blank ==
    /\ fetch_failure = "none"
    /\ rev_ix = 0
    /\ contribution_data = <<>>
    /\ previous_size = 0
    /\ revision_history = NoneValue
    /\ page_title = NoneValue
    /\ agg_data = <<>>
    /\ agg_ix = 0
    /\ user_stats = <<>>
    /\ total_text_added = 0
    /\ processed_stats = <<>>
    /\ divisions = 0
    /\ warned = FALSE
    /\ user_statistics = <<>>
    /\ agg_calls = 0
    /\ report_calls = 0
    /\ table_rows = <<>>
    /\ html_template = NoDoc
    /\ file_written = FALSE

\* ------------------------------------------------------- get_revision_data
\* mwclient.Site(...) is constructed before the try block: when it raises,
\* nothing catches the exception and the script ends.
Connect ==
    /\ pc = "start"
    /\ pc' \in { "try", "crashed" }
    /\ UNCHANGED << revs, page_name, fetch_failure, revision_history, page_title >>
    /\ UNCHANGED << fetchVars, aggVars, reportVars >>

\* site.pages[...] and page.exists: a raise is caught and returns
\* (None, None), a missing page returns (None, None), otherwise the loop
\* starts with an empty list and previous_size = 0.
LookupPage ==
    /\ pc = "try"
    /\ \E outcome \in { "exception", "missing", "exists" } :
          IF outcome = "exists"
          THEN /\ pc' = "loop"
               /\ contribution_data' = <<>>
               /\ previous_size' = 0
               /\ rev_ix' = 0
               /\ UNCHANGED << fetch_failure, revision_history, page_title >>
          ELSE /\ pc' = "returned"
               /\ fetch_failure' = outcome
               /\ revision_history' = NoneValue
               /\ page_title' = NoneValue
               /\ UNCHANGED fetchVars
    /\ UNCHANGED << revs, page_name >>
    /\ UNCHANGED << aggVars, reportVars >>

\* The loop body with size_difference = current_size.
ForRevisionMissingPrevious ==
    /\ pc = "loop"
    /\ rev_ix < Len(revs)
    /\ LET rev == revs[rev_ix + 1]
           current_size == DictGet(rev, "size", 0)
           size_difference == current_size
       IN  /\ contribution_data' = Append(contribution_data,
                  [user |-> DictGet(rev, "user", Unknown), change |-> size_difference])
           /\ previous_size' = current_size
    /\ rev_ix' = rev_ix + 1
    /\ UNCHANGED << pc, revs, page_name, fetch_failure, revision_history, page_title >>
    /\ UNCHANGED << aggVars, reportVars >>

\* Lines 28-35: one iteration of `for rev in page.revisions(...)`.
ForRevision ==
    /\ pc = "loop"
    /\ rev_ix < Len(revs)
    /\ LET rev == revs[rev_ix + 1]
           current_size == DictGet(rev, "size", 0)
           size_difference == current_size - previous_size
       IN  /\ contribution_data' = Append(contribution_data,
                  [user |-> DictGet(rev, "user", Unknown), change |-> size_difference])
           /\ previous_size' = current_size
    /\ rev_ix' = rev_ix + 1
    /\ UNCHANGED << pc, revs, page_name, fetch_failure, revision_history, page_title >>
    /\ UNCHANGED << aggVars, reportVars >>

\* The revision iterator raises (it fetches lazily): caught by
\* `except Exception`, returns (None, None).
FetchRaises ==
    /\ pc = "loop"
    /\ pc' = "returned"
    /\ fetch_failure' = "exception"
    /\ revision_history' = NoneValue
    /\ page_title' = NoneValue
    /\ UNCHANGED << revs, page_name >>
    /\ UNCHANGED << fetchVars, aggVars, reportVars >>

\* The loop is exhausted: return contribution_data, page.name.
ReturnData ==
    /\ pc = "loop"
    /\ rev_ix = Len(revs)
    /\ pc' = "returned"
    /\ revision_history' = Some(contribution_data)
    /\ page_title' = Some(page_name)
    /\ UNCHANGED << revs, page_name, fetch_failure >>
    /\ UNCHANGED << fetchVars, aggVars, reportVars >>

\* ---------------------------------------------------- aggregate_user_stats
\* Position of `user` among the keys of the dict, 0 when it is no key.
KeyIndex(stats, user) ==
    IF \E k \in 1..Len(stats) : stats[k].user = user
    THEN CHOOSE k \in 1..Len(stats) : stats[k].user = user
    ELSE 0

\* user_stats[user]: the defaultdict creates a zeroed entry, appended to the
\* insertion order, on the first access of a key.
DefaultEntry(stats, user) ==
    IF KeyIndex(stats, user) # 0 THEN stats
    ELSE Append(stats, [user |-> user, edits |-> 0, text_added |-> 0, text_removed |-> 0])

\* The loop body with text_removed += change, the abs() forgotten.
AccumulateSigned(stats, rev) ==
    LET touched == DefaultEntry(stats, rev.user)
        k == KeyIndex(touched, rev.user)
        counted == [touched EXCEPT ![k].edits = @ + 1]
    IN  IF rev.change > 0
        THEN [counted EXCEPT ![k].text_added = @ + rev.change]
        ELSE [counted EXCEPT ![k].text_removed = @ + rev.change]

\* The loop body with edits += 1 moved into the `change > 0` branch.
AccumulateEditsOnAdd(stats, rev) ==
    LET touched == DefaultEntry(stats, rev.user)
        k == KeyIndex(touched, rev.user)
    IN  IF rev.change > 0
        THEN [touched EXCEPT ![k].edits = @ + 1, ![k].text_added = @ + rev.change]
        ELSE [touched EXCEPT ![k].text_removed = @ + Abs(rev.change)]

\* Lines 50-57: the body of `for rev in contribution_data` for one record.
Accumulate(stats, rev) ==
    LET touched == DefaultEntry(stats, rev.user)
        k == KeyIndex(touched, rev.user)
        counted == [touched EXCEPT ![k].edits = @ + 1]
    IN  IF rev.change > 0
        THEN [counted EXCEPT ![k].text_added = @ + rev.change]
        ELSE [counted EXCEPT ![k].text_removed = @ + Abs(rev.change)]

RECURSIVE SumField(_, _)
SumField(stats, field) ==
    IF stats = <<>> THEN 0 ELSE Head(stats)[field] + SumField(Tail(stats), field)

\* The total taken over every changed byte, added or removed.
SumAddedAndRemoved(stats) == SumField(stats, "text_added") + SumField(stats, "text_removed")

\* sum(stats['text_added'] for stats in user_stats.values())
SumTextAdded(stats) == SumField(stats, "text_added")

\* (text_added / total_text_added) * 100 if total_text_added > 0 else 0
Percentage(text_added, total) ==
    IF total > 0 THEN [num |-> text_added * 100, den |-> total]
    ELSE [num |-> 0, den |-> 1]

\* p < q for two percentages (denominators are positive).
PctLess(p, q) == p.num * q.den < q.num * p.den

\* Stable insertion into a list sorted by descending percentage: an element
\* goes after every element whose percentage is not smaller than its own.
RECURSIVE InsertDescending(_, _)
InsertDescending(x, sorted) ==
    IF sorted = <<>> THEN << x >>
    ELSE IF PctLess(Head(sorted).percentage, x.percentage) THEN << x >> \o sorted
    ELSE << Head(sorted) >> \o InsertDescending(x, Tail(sorted))

RECURSIVE InsertAll(_, _)
InsertAll(list, sorted) ==
    IF list = <<>> THEN sorted
    ELSE InsertAll(Tail(list), InsertDescending(Head(list), sorted))

\* An ascending stable sort followed by a reversal: ties come out reversed.
RECURSIVE InsertAscending(_, _)
InsertAscending(x, sorted) ==
    IF sorted = <<>> THEN << x >>
    ELSE IF PctLess(x.percentage, Head(sorted).percentage) THEN << x >> \o sorted
    ELSE << Head(sorted) >> \o InsertAscending(x, Tail(sorted))

RECURSIVE InsertAllAscending(_, _)
InsertAllAscending(list, sorted) ==
    IF list = <<>> THEN sorted
    ELSE InsertAllAscending(Tail(list), InsertAscending(Head(list), sorted))

Reverse(list) == [k \in 1..Len(list) |-> list[Len(list) + 1 - k]]

SortThenReverse(list) == Reverse(InsertAllAscending(list, <<>>))

\* list.sort(key=lambda x: x['percentage'], reverse=True): stable.
SortByPercentage(list) == InsertAll(list, <<>>)

\* Lines 49-57, one record per step.
AggRecord ==
    /\ pc = "agg_loop"
    /\ agg_ix < Len(agg_data)
    /\ user_stats' = Accumulate(user_stats, agg_data[agg_ix + 1])
    /\ agg_ix' = agg_ix + 1
    /\ UNCHANGED << pc, revs, page_name, fetch_failure, revision_history, page_title >>
    /\ UNCHANGED << agg_data, total_text_added, processed_stats, divisions, warned,
                    user_statistics, agg_calls >>
    /\ UNCHANGED << fetchVars, reportVars >>

\* Line 59.
AggTotal ==
    /\ pc = "agg_loop"
    /\ agg_ix = Len(agg_data)
    /\ total_text_added' = SumTextAdded(user_stats)
    /\ pc' = "agg_branch"
    /\ UNCHANGED << revs, page_name, fetch_failure, revision_history, page_title >>
    /\ UNCHANGED << agg_data, agg_ix, user_stats, processed_stats, divisions, warned,
                    user_statistics, agg_calls >>
    /\ UNCHANGED << fetchVars, reportVars >>

\* Lines 61-63 without the early return: falls through to the second loop.
AggNoContentFallsThrough ==
    /\ pc = "agg_branch"
    /\ total_text_added = 0
    /\ warned' = TRUE
    /\ processed_stats' = <<>>
    /\ pc' = "agg_percent"
    /\ UNCHANGED << revs, page_name, fetch_failure, revision_history, page_title >>
    /\ UNCHANGED << agg_data, agg_ix, user_stats, total_text_added, divisions,
                    user_statistics, agg_calls >>
    /\ UNCHANGED << fetchVars, reportVars >>

\* Lines 61-63 without the print.
AggNoContentSilent ==
    /\ pc = "agg_branch"
    /\ total_text_added = 0
    /\ user_statistics' = <<>>
    /\ pc' = "agg_returned"
    /\ UNCHANGED << revs, page_name, fetch_failure, revision_history, page_title >>
    /\ UNCHANGED << agg_data, agg_ix, user_stats, total_text_added, processed_stats,
                    divisions, warned, agg_calls >>
    /\ UNCHANGED << fetchVars, reportVars >>

\* Lines 61-63: print the warning and return [].
AggNoContent ==
    /\ pc = "agg_branch"
    /\ total_text_added = 0
    /\ warned' = TRUE
    /\ user_statistics' = <<>>
    /\ pc' = "agg_returned"
    /\ UNCHANGED << revs, page_name, fetch_failure, revision_history, page_title >>
    /\ UNCHANGED << agg_data, agg_ix, user_stats, total_text_added, processed_stats,
                    divisions, agg_calls >>
    /\ UNCHANGED << fetchVars, reportVars >>

\* Line 65.
AggStartPercent ==
    /\ pc = "agg_branch"
    /\ total_text_added # 0
    /\ processed_stats' = <<>>
    /\ pc' = "agg_percent"
    /\ UNCHANGED << revs, page_name, fetch_failure, revision_history, page_title >>
    /\ UNCHANGED << agg_data, agg_ix, user_stats, total_text_added, divisions, warned,
                    user_statistics, agg_calls >>
    /\ UNCHANGED << fetchVars, reportVars >>

\* Lines 66-72, one user per step, in the dict's insertion order.
AggPercent ==
    /\ pc = "agg_percent"
    /\ Len(processed_stats) < Len(user_stats)
    /\ LET stats == user_stats[Len(processed_stats) + 1]
       IN  processed_stats' = Append(processed_stats,
               [user |-> stats.user,
                percentage |-> Percentage(stats.text_added, total_text_added),
                edits |-> stats.edits,
                text_added |-> stats.text_added,
                text_removed |-> stats.text_removed])
    /\ divisions' = IF total_text_added > 0 THEN divisions + 1 ELSE divisions
    /\ UNCHANGED << pc, revs, page_name, fetch_failure, revision_history, page_title >>
    /\ UNCHANGED << agg_data, agg_ix, user_stats, total_text_added, warned,
                    user_statistics, agg_calls >>
    /\ UNCHANGED << fetchVars, reportVars >>

\* Lines 74-76: sort in place and return.
AggSortReturn ==
    /\ pc = "agg_percent"
    /\ Len(processed_stats) = Len(user_stats)
    /\ processed_stats' = SortByPercentage(processed_stats)
    /\ user_statistics' = processed_stats'
    /\ pc' = "agg_returned"
    /\ UNCHANGED << revs, page_name, fetch_failure, revision_history, page_title >>
    /\ UNCHANGED << agg_data, agg_ix, user_stats, total_text_added, divisions, warned,
                    agg_calls >>
    /\ UNCHANGED << fetchVars, reportVars >>

\* ------------------------------------------------------ create_html_report
\* str.replace(old, new) for a one-character old.
RECURSIVE StrReplace(_, _, _)
StrReplace(s, old, new) ==
    IF s = <<>> THEN <<>>
    ELSE (IF Head(s) = old THEN new ELSE << Head(s) >>) \o StrReplace(Tail(s), old, new)

\* html.escape(s) with quote=True: & first, then <, >, " and '.
html_escape(s) ==
    LET s1 == StrReplace(s, "&", << "&", "a", "m", "p", ";" >>)
        s2 == StrReplace(s1, "<", << "&", "l", "t", ";" >>)
        s3 == StrReplace(s2, ">", << "&", "g", "t", ";" >>)
        s4 == StrReplace(s3, "\"", << "&", "q", "u", "o", "t", ";" >>)
    IN  StrReplace(s4, "'", << "&", "#", "x", "2", "7", ";" >>)

DigitChars == << "0", "1", "2", "3", "4", "5", "6", "7", "8", "9" >>

\* str(n) for n >= 0.
RECURSIVE Digits(_)
Digits(n) ==
    IF n < 10 THEN << DigitChars[n + 1] >>
    ELSE Digits(n \div 10) \o << DigitChars[(n % 10) + 1] >>

\* f"{n:,}" for n >= 0: groups of three digits separated by commas.
RECURSIVE Grouped(_)
Grouped(n) ==
    IF n < 1000 THEN Digits(n)
    ELSE Grouped(n \div 1000)
         \o << ",", DigitChars[((n \div 100) % 10) + 1],
               DigitChars[((n \div 10) % 10) + 1], DigitChars[(n % 10) + 1] >>

\* f"{percentage:.2f}": the value rounded to hundredths, ties to even (the
\* float is taken as the exact quotient; the two differ only next to a tie).
Format2f(p) ==
    LET scaled == p.num * 100
        q == scaled \div p.den
        r == scaled % p.den
        h == IF 2 * r > p.den \/ (2 * r = p.den /\ q % 2 = 1) THEN q + 1 ELSE q
    IN  Digits(h \div 100) \o << ".", DigitChars[((h \div 10) % 10) + 1],
                                 DigitChars[(h % 10) + 1] >>

WikiUserUrl == "https://en.wikipedia.org/wiki/User:"

\* A row whose link text is the raw user name.
TableRowRawText(user_data) ==
    [href |-> [base |-> WikiUserUrl, user |-> html_escape(user_data.user)],
     text |-> user_data.user,
     width |-> Format2f(user_data.percentage),
     label |-> Format2f(user_data.percentage),
     edits |-> Grouped(user_data.edits),
     text_added |-> << "+" >> \o Grouped(user_data.text_added),
     text_removed |-> << "-" >> \o Grouped(user_data.text_removed)]

\* Lines 84-103: the <tr> of one user, as its interpolated values.
TableRow(user_data) ==
    LET user_name_safe == html_escape(user_data.user)
    IN  [href |-> [base |-> WikiUserUrl, user |-> user_name_safe],
         text |-> user_name_safe,
         width |-> Format2f(user_data.percentage),
         label |-> Format2f(user_data.percentage),
         edits |-> Grouped(user_data.edits),
         text_added |-> << "+" >> \o Grouped(user_data.text_added),
         text_removed |-> << "-" >> \o Grouped(user_data.text_removed)]

\* Line 234 / line 82: the call, with stats = user_statistics.
ReportCall ==
    /\ pc = "agg_returned"
    /\ report_calls' = report_calls + 1
    /\ table_rows' = <<>>
    /\ pc' = "report_rows"
    /\ UNCHANGED << revs, page_name, fetch_failure, revision_history, page_title >>
    /\ UNCHANGED << html_template, file_written >>
    /\ UNCHANGED << fetchVars, aggVars >>

\* Lines 83-103, one user_data per step.
ReportRow ==
    /\ pc = "report_rows"
    /\ Len(table_rows) < Len(user_statistics)
    /\ table_rows' = Append(table_rows, TableRow(user_statistics[Len(table_rows) + 1]))
    /\ UNCHANGED << pc, revs, page_name, fetch_failure, revision_history, page_title >>
    /\ UNCHANGED << report_calls, html_template, file_written >>
    /\ UNCHANGED << fetchVars, aggVars >>

\* Lines 105-224: fill the template and write contribution_report.html.
ReportWrite ==
    /\ pc = "report_rows"
    /\ Len(table_rows) = Len(user_statistics)
    /\ html_template' = [title |-> html_escape(page_title.val),
                         summary |-> html_escape(page_title.val),
                         rows |-> table_rows]
    /\ file_written' = TRUE
    /\ pc' = "done"
    /\ UNCHANGED << revs, page_name, fetch_failure, revision_history, page_title >>
    /\ UNCHANGED << report_calls, table_rows >>
    /\ UNCHANGED << fetchVars, aggVars >>

\* ---------------------------------------------------------------- __main__
\* `if revision_history is not None:` in place of the truthiness test.
MainCheckNotNone ==
    /\ pc = "returned"
    /\ IF ~revision_history.none
       THEN /\ pc' = "agg_loop"
            /\ agg_calls' = agg_calls + 1
            /\ agg_data' = revision_history.val
            /\ agg_ix' = 0
            /\ user_stats' = <<>>
       ELSE /\ pc' = "done"
            /\ UNCHANGED << agg_calls, agg_data, agg_ix, user_stats >>
    /\ UNCHANGED << revs, page_name, fetch_failure, revision_history, page_title >>
    /\ UNCHANGED << total_text_added, processed_stats, divisions, warned, user_statistics >>
    /\ UNCHANGED << fetchVars, reportVars >>

\* Lines 232-233: `if revision_history:` and the call of aggregate_user_stats.
MainCheck ==
    /\ pc = "returned"
    /\ IF Truthy(revision_history)
       THEN /\ pc' = "agg_loop"
            /\ agg_calls' = agg_calls + 1
            /\ agg_data' = revision_history.val
            /\ agg_ix' = 0
            /\ user_stats' = <<>>
       ELSE /\ pc' = "done"
            /\ UNCHANGED << agg_calls, agg_data, agg_ix, user_stats >>
    /\ UNCHANGED << revs, page_name, fetch_failure, revision_history, page_title >>
    /\ UNCHANGED << total_text_added, processed_stats, divisions, warned, user_statistics >>
    /\ UNCHANGED << fetchVars, reportVars >>

\* ---------------------------------------------------------- specifications
\* The script: the Source holds some page and some revision history.
Init ==
    /\ pc = "start"
    /\ revs \in SeqsUpTo(Revisions, MaxRevs)
    /\ page_name \in PageNames
    /\ Blank

Next ==
    \/ Connect
    \/ LookupPage
    \/ ForRevision
    \/ FetchRaises
    \/ ReturnData
    \/ MainCheck
    \/ AggRecord
    \/ AggTotal
    \/ AggNoContent
    \/ AggStartPercent
    \/ AggPercent
    \/ AggSortReturn
    \/ ReportCall
    \/ ReportRow
    \/ ReportWrite

Spec == Init /\ [][Next]_vars

\* aggregate_user_stats called on any list of delta records.
InitAggregate ==
    /\ pc = "agg_loop"
    /\ revs = <<>>
    /\ page_name = <<>>
    /\ fetch_failure = "none"
    /\ rev_ix = 0
    /\ contribution_data = <<>>
    /\ previous_size = 0
    /\ revision_history = NoneValue
    /\ page_title = NoneValue
    /\ agg_data \in SeqsUpTo(DeltaRecords, MaxDeltas)
    /\ agg_ix = 0
    /\ user_stats = <<>>
    /\ total_text_added = 0
    /\ processed_stats = <<>>
    /\ divisions = 0
    /\ warned = FALSE
    /\ user_statistics = <<>>
    /\ agg_calls = 1
    /\ report_calls = 0
    /\ table_rows = <<>>
    /\ html_template = NoDoc
    /\ file_written = FALSE

NextAggregate ==
    \/ AggRecord
    \/ AggTotal
    \/ AggNoContent
    \/ AggStartPercent
    \/ AggPercent
    \/ AggSortReturn

SpecAggregate == InitAggregate /\ [][NextAggregate]_vars

\* create_html_report called on any ranked list and any title.
StatSamples ==
    { [percentage |-> [num |-> 100, den |-> 3], edits |-> 1234,
       text_added |-> 1, text_removed |-> 1234567] }

StatRows ==
    { [user |-> u, percentage |-> x.percentage, edits |-> x.edits,
       text_added |-> x.text_added, text_removed |-> x.text_removed] :
      u \in StringsUpTo(MaxNameLen), x \in StatSamples }

InitReport ==
    /\ pc = "agg_returned"
    /\ revs = <<>>
    /\ page_name = <<>>
    /\ fetch_failure = "none"
    /\ rev_ix = 0
    /\ contribution_data = <<>>
    /\ previous_size = 0
    /\ revision_history = NoneValue
    /\ page_title \in { Some(t) : t \in Titles }
    /\ agg_data = <<>>
    /\ agg_ix = 0
    /\ user_stats = <<>>
    /\ total_text_added = 0
    /\ processed_stats = <<>>
    /\ divisions = 0
    /\ warned = FALSE
    /\ user_statistics \in SeqsUpTo(StatRows, MaxRows)
    /\ agg_calls = 0
    /\ report_calls = 0
    /\ table_rows = <<>>
    /\ html_template = NoDoc
    /\ file_written = FALSE

NextReport ==
    \/ ReportCall
    \/ ReportRow
    \/ ReportWrite

SpecReport == InitReport /\ [][NextReport]_vars

\* ================================================================== claims
\* What the claims read off the inputs, computed directly from the inputs.

\* Size of revision i as the Source gave it; 0 before the first and when absent.
RevSize(i) ==
    IF i = 0 THEN 0
    ELSE IF "size" \in DOMAIN revs[i] THEN revs[i].size ELSE 0

RevAuthor(i) == IF "user" \in DOMAIN revs[i] THEN revs[i].user ELSE Unknown

ExpectedDelta(i) == [user |-> RevAuthor(i), change |-> RevSize(i) - RevSize(i - 1)]

\* Every step after the first is not larger than the revision before it.
NonIncreasing == \A i \in 2..Len(revs) : RevSize(i) <= RevSize(i - 1)

StrictlyDecreasing == \A i \in 2..Len(revs) : RevSize(i) < RevSize(i - 1)

\* No revision, the first included (against size 0), grows the document.
NoGrowth == \A i \in 1..Len(revs) : RevSize(i) <= RevSize(i - 1)

RECURSIVE AddedBy(_, _)
AddedBy(data, u) ==
    IF data = <<>> THEN 0
    ELSE (IF Head(data).user = u /\ Head(data).change > 0 THEN Head(data).change ELSE 0)
         + AddedBy(Tail(data), u)

RECURSIVE RemovedBy(_, _)
RemovedBy(data, u) ==
    IF data = <<>> THEN 0
    ELSE (IF Head(data).user = u /\ Head(data).change <= 0 THEN -Head(data).change ELSE 0)
         + RemovedBy(Tail(data), u)

EditsBy(data, u) == Cardinality({ i \in 1..Len(data) : data[i].user = u })

AuthorsOf(data) == { data[i].user : i \in 1..Len(data) }

RECURSIVE TotalAdded(_)
TotalAdded(data) ==
    IF data = <<>> THEN 0
    ELSE (IF Head(data).change > 0 THEN Head(data).change ELSE 0) + TotalAdded(Tail(data))

FirstIndex(data, u) ==
    CHOOSE i \in 1..Len(data) :
        data[i].user = u /\ \A h \in 1..(i - 1) : data[h].user # u

RECURSIVE SumEdits(_)
SumEdits(list) == IF list = <<>> THEN 0 ELSE Head(list).edits + SumEdits(Tail(list))

RECURSIVE SumNum(_)
SumNum(list) == IF list = <<>> THEN 0 ELSE Head(list).percentage.num + SumNum(Tail(list))

\* aggregate_user_stats has been called and has returned.
AggregateReturned == agg_calls > 0 /\ pc \in { "agg_returned", "report_rows", "done" }

\* ---- C1
\* C1: get_revision_data emits one delta record per revision, in input
\* order; record i carries the revision's author ("Unknown" when absent)
\* and change = size_i - size_(i-1), an absent size read as 0 and the size
\* before the first revision being 0.  Holds after every iteration and for
\* the returned list, the empty sequence included.
C1_DeltaPerRevision ==
    /\ pc = "loop" =>
          /\ Len(contribution_data) = rev_ix
          /\ \A i \in 1..rev_ix : contribution_data[i] = ExpectedDelta(i)
    /\ ~revision_history.none =>
          /\ Len(revision_history.val) = Len(revs)
          /\ \A i \in 1..Len(revs) : revision_history.val[i] = ExpectedDelta(i)

C1_Witness ==
    /\ pc = "returned"
    /\ ~revision_history.none
    /\ Len(revs) >= 3
    /\ \E i \in 1..Len(revs) : "user" \notin DOMAIN revs[i]
    /\ \E i \in 1..Len(revs) : "size" \notin DOMAIN revs[i]
    /\ \E i \in 2..Len(revs) : revision_history.val[i].change < 0
    /\ revision_history.val[1].change > 0

\* ---- C2
\* C2: when the total added content is > 0, aggregate_user_stats returns
\* exactly one entry per distinct author of the input, and each entry has
\* edits = the author's record count, text_added = the sum of the author's
\* positive changes, text_removed = the sum of |change| over the author's
\* changes <= 0.
C2_PerAuthorStats ==
    (pc = "agg_returned" /\ TotalAdded(agg_data) > 0) =>
        /\ Len(user_statistics) = Cardinality(AuthorsOf(agg_data))
        /\ \A u \in AuthorsOf(agg_data) :
              \E k \in 1..Len(user_statistics) : user_statistics[k].user = u
        /\ \A k \in 1..Len(user_statistics) :
              LET e == user_statistics[k]
              IN  /\ e.user \in AuthorsOf(agg_data)
                  /\ e.edits = EditsBy(agg_data, e.user)
                  /\ e.text_added = AddedBy(agg_data, e.user)
                  /\ e.text_removed = RemovedBy(agg_data, e.user)

C2_Witness ==
    /\ pc = "agg_returned"
    /\ Len(user_statistics) >= 2
    /\ \E k \in 1..Len(user_statistics) :
          user_statistics[k].text_added = 0 /\ user_statistics[k].text_removed > 0
    /\ \E i \in 1..Len(agg_data) : agg_data[i].change = 0

\* ---- C3
\* C3 as stated: for every input revision sequence the edits of the
\* returned statistics sum to the number of input revisions.
C3_Original ==
    AggregateReturned => SumEdits(user_statistics) = Len(revs)

\* C3 amended: the edits of the returned statistics sum to the number of
\* input revisions whenever the revisions add content (total added > 0);
\* when they add none the returned list is empty and the sum is 0.
C3_EditsSum ==
    AggregateReturned =>
        /\ TotalAdded(agg_data) > 0 => SumEdits(user_statistics) = Len(revs)
        /\ TotalAdded(agg_data) = 0 => SumEdits(user_statistics) = 0

C3_Witness ==
    /\ AggregateReturned
    /\ Len(revs) >= 3
    /\ TotalAdded(agg_data) > 0
    /\ Len(user_statistics) >= 2
    /\ SumEdits(user_statistics) = Len(revs)

\* ---- C4
\* C4: when the total of text_added is 0 (the empty input included)
\* aggregate_user_stats returns the empty list and the percentage division
\* is never evaluated; when the total is > 0 it returns a non-empty list.
C4_NoContentAdded ==
    /\ pc = "agg_percent" => TotalAdded(agg_data) > 0
    /\ TotalAdded(agg_data) = 0 => divisions = 0
    /\ pc = "agg_returned" =>
          /\ TotalAdded(agg_data) = 0 => user_statistics = <<>>
          /\ TotalAdded(agg_data) > 0 => user_statistics # <<>>

C4_Witness ==
    /\ pc = "agg_returned"
    /\ Len(agg_data) >= 2
    /\ \E i \in 1..Len(agg_data) : agg_data[i].change < 0
    /\ TotalAdded(agg_data) = 0
    /\ user_statistics = <<>>
    /\ divisions = 0

\* ---- C5
\* C5 as stated, on sequences of two or more revisions: if each revision's
\* size is <= the size of the revision before it, total_text_added is 0
\* and the returned list is empty.
C5_Original ==
    (AggregateReturned /\ Len(revs) >= 2 /\ NonIncreasing) =>
        (total_text_added = 0 /\ user_statistics = <<>>)

\* C5 amended: if no revision is larger than its predecessor, the first
\* revision being compared with the initial size 0, then total_text_added
\* is 0 and the returned list is empty.
C5_NoGrowthIsEmpty ==
    (AggregateReturned /\ NoGrowth) =>
        (total_text_added = 0 /\ user_statistics = <<>>)

C5_Witness ==
    /\ AggregateReturned
    /\ NoGrowth
    /\ Len(revs) >= 2
    /\ \E i \in 1..Len(revs) : "size" \in DOMAIN revs[i]
    /\ user_statistics = <<>>

\* ---- C6
\* C6: the returned list is sorted non-increasing by percentage, and two
\* authors with equal percentage appear in the order of their first
\* appearance in the input.
C6_RankedStable ==
    pc = "agg_returned" =>
        \A j, k \in 1..Len(user_statistics) :
            j < k =>
                LET p == user_statistics[j].percentage
                    q == user_statistics[k].percentage
                IN  /\ p.num * q.den >= q.num * p.den
                    /\ p.num * q.den = q.num * p.den =>
                          FirstIndex(agg_data, user_statistics[j].user)
                              < FirstIndex(agg_data, user_statistics[k].user)

C6_Witness ==
    /\ pc = "agg_returned"
    /\ Len(user_statistics) = 3
    /\ user_statistics[1].percentage.num > user_statistics[2].percentage.num
    /\ user_statistics[2].percentage = user_statistics[3].percentage
    /\ FirstIndex(agg_data, user_statistics[2].user)
           < FirstIndex(agg_data, user_statistics[1].user)

\* ---- C7
\* C7: when total_text_added > 0, each returned percentage is
\* text_added / total_text_added * 100, lies in [0, 100], and the
\* percentages sum to 100.
C7_Percentages ==
    (pc = "agg_returned" /\ TotalAdded(agg_data) > 0) =>
        /\ \A k \in 1..Len(user_statistics) :
              LET e == user_statistics[k]
              IN  /\ e.percentage.den = TotalAdded(agg_data)
                  /\ e.percentage.num = e.text_added * 100
                  /\ 0 <= e.percentage.num
                  /\ e.percentage.num <= 100 * e.percentage.den
        /\ SumNum(user_statistics) = 100 * TotalAdded(agg_data)

C7_Witness ==
    /\ pc = "agg_returned"
    /\ Len(user_statistics) >= 2
    /\ \A k \in 1..Len(user_statistics) : user_statistics[k].percentage.num > 0
    /\ \E k \in 1..Len(user_statistics) : user_statistics[k].text_removed > 0
    /\ user_statistics[1].percentage.den = 3

\* ---- C8
MarkupChars == { "<", ">", "\"", "'" }

Entities ==
    { << << "&", "a", "m", "p", ";" >>, "&" >>,
      << << "&", "l", "t", ";" >>, "<" >>,
      << << "&", "g", "t", ";" >>, ">" >>,
      << << "&", "q", "u", "o", "t", ";" >>, "\"" >>,
      << << "&", "#", "x", "2", "7", ";" >>, "'" >> }

StartsWith(s, prefix) ==
    /\ Len(s) >= Len(prefix)
    /\ SubSeq(s, 1, Len(prefix)) = prefix

\* What a browser shows for the text s: entities decoded, the rest as is.
RECURSIVE Unescape(_)
Unescape(s) ==
    IF s = <<>> THEN <<>>
    ELSE IF \E e \in Entities : StartsWith(s, e[1])
         THEN LET e == CHOOSE x \in Entities : StartsWith(s, x[1])
              IN  << e[2] >> \o Unescape(SubSeq(s, Len(e[1]) + 1, Len(s)))
         ELSE << Head(s) >> \o Unescape(Tail(s))

\* No markup-significant character is live in s: no <, >, " or ', and every
\* & starts an entity.
NoLiveMarkup(s) ==
    \A i \in 1..Len(s) :
        /\ s[i] \notin MarkupChars
        /\ s[i] = "&" => \E e \in Entities : StartsWith(SubSeq(s, i, Len(s)), e[1])

EscapedFormOf(s, raw) == NoLiveMarkup(s) /\ Unescape(s) = raw

\* C8: in the document create_html_report builds, the link target and the
\* link text of every row hold the escaped author identity and <title> and
\* the summary paragraph hold the escaped title: no <, >, & or quote of
\* either reaches the document unescaped.
C8_Escaped ==
    /\ pc = "report_rows" =>
          \A k \in 1..Len(table_rows) :
              /\ EscapedFormOf(table_rows[k].href.user, user_statistics[k].user)
              /\ EscapedFormOf(table_rows[k].text, user_statistics[k].user)
    /\ file_written =>
          /\ EscapedFormOf(html_template.title, page_title.val)
          /\ EscapedFormOf(html_template.summary, page_title.val)
          /\ Len(html_template.rows) = Len(user_statistics)
          /\ \A k \in 1..Len(user_statistics) :
                /\ EscapedFormOf(html_template.rows[k].href.user, user_statistics[k].user)
                /\ EscapedFormOf(html_template.rows[k].text, user_statistics[k].user)

C8_Witness ==
    /\ file_written
    /\ Len(html_template.rows) >= 1
    /\ \E i \in 1..Len(user_statistics[1].user) : user_statistics[1].user[i] = "<"
    /\ \E i \in 1..Len(user_statistics[1].user) : user_statistics[1].user[i] = "&"
    /\ \E i \in 1..Len(page_title.val) : page_title.val[i] = "'"
    /\ html_template.rows[1].text # user_statistics[1].user

\* ---- C9
\* C9 as stated, on sequences of two or more revisions: when the revisions
\* are strictly decreasing in size, the pipeline's report signals "no
\* content added" and contains zero data rows.
C9_Original ==
    (pc = "done" /\ ~revision_history.none /\ Len(revs) >= 2 /\ StrictlyDecreasing) =>
        (file_written /\ warned /\ html_template.rows = <<>>)

\* C9 amended: when no revision of a non-empty sequence is larger than its
\* predecessor, the first being compared with the initial size 0, the
\* pipeline prints the "no text was added" warning and writes a report
\* with zero data rows.
C9_NoGrowthReport ==
    (pc = "done" /\ ~revision_history.none /\ revs # <<>> /\ NoGrowth) =>
        (file_written /\ warned /\ html_template.rows = <<>>)

C9_Witness ==
    /\ pc = "done"
    /\ file_written
    /\ revs # <<>>
    /\ NoGrowth
    /\ warned
    /\ html_template.rows = <<>>
    /\ html_template.title # <<>>

\* ---- C10
\* C10: a failed retrieval (missing page, or an exception while fetching)
\* makes get_revision_data return (None, None); then, and also when the
\* revision sequence is empty, aggregate_user_stats and create_html_report
\* are never called and no report is written; create_html_report is called
\* only after aggregate_user_stats has returned.
C10_ShortCircuit ==
    /\ fetch_failure # "none" =>
          (pc \in { "returned", "done" } /\ revision_history = NoneValue
           /\ page_title = NoneValue)
    /\ (pc \in { "returned", "done" } /\ fetch_failure = "none") =>
          (revision_history = Some(contribution_data) /\ page_title = Some(page_name))
    /\ ~Truthy(revision_history) =>
          (agg_calls = 0 /\ report_calls = 0 /\ ~file_written /\ html_template = NoDoc)
    /\ report_calls > 0 => (agg_calls = 1 /\ pc \in { "report_rows", "done" })
    /\ pc \in { "agg_loop", "agg_branch", "agg_percent", "agg_returned" } =>
          (agg_calls = 1 /\ report_calls = 0 /\ ~file_written)

C10_Witness ==
    /\ pc = "done"
    /\ fetch_failure = "exception"
    /\ rev_ix >= 2
    /\ agg_calls = 0
    /\ report_calls = 0
    /\ ~file_written

====
